---- MODULE Spec2Model ----
(***************************************************************************)
(* Model of bdb_parser/main.py: the record-stream decoder analyze_dump,    *)
(* the name-tag decoder parse_key_name / hex_to_ascii, the registry keys   *)
(* and the typed decoders parse_key_key, parse_key_value,                  *)
(* parse_minversion_key, parse_minversion_value, parse_pool_key and        *)
(* parse_pool_value.                                                       *)
(*                                                                         *)
(* A line is a sequence of one-character strings over the alphabet         *)
(* 0-9 a-f (hexadecimal digits), "z" (a character that is no hexadecimal   *)
(* digit) and " " (whitespace).  A Python str of decoded text is a         *)
(* sequence of code points.  A Python int is the sequence of its           *)
(* hexadecimal digits, most significant first, without leading zeros (so   *)
(* 64-bit timestamps need no machine arithmetic).                          *)
(***************************************************************************)
EXTENDS Integers, Sequences, FiniteSets, TLC

VARIABLES lines, i, results, starts, pc, called, ret, faulted

vars == <<lines, i, results, starts, pc, called, ret, faulted>>

(***************************************************************************)
(* Bounds of the model.                                                    *)
(***************************************************************************)
MaxLines == 3
MaxPoolLines == 4

PRIVATE_KEY_LEN == 32

(***************************************************************************)
(* Python primitives the decoders are written with.                        *)
(***************************************************************************)
HexDigits == <<"0","1","2","3","4","5","6","7","8","9","a","b","c","d","e","f">>

IsHex(c) == \E k \in 1..16 : HexDigits[k] = c

HexVal(c) == (CHOOSE k \in 1..16 : HexDigits[k] = c) - 1

IsSpace(c) == c = " "

\* s[a:b] for 0 <= a, 0 <= b
Slice(s, a, b) ==
  LET hi == IF b < Len(s) THEN b ELSE Len(s)
  IN  IF a >= hi THEN <<>> ELSE SubSeq(s, a + 1, hi)

\* s[a:]
SliceFrom(s, a) == Slice(s, a, Len(s))

RECURSIVE LStrip(_)
LStrip(s) == IF s # <<>> /\ IsSpace(Head(s)) THEN LStrip(Tail(s)) ELSE s

RECURSIVE RStrip(_)
RStrip(s) ==
  IF s # <<>> /\ IsSpace(s[Len(s)]) THEN RStrip(SubSeq(s, 1, Len(s) - 1)) ELSE s

\* str.strip() of a line
Strip(s) == RStrip(LStrip(s))

\* int(s, 16) raises ValueError: after trimming whitespace the literal is
\* empty or holds a character that is no hexadecimal digit
IntRaises(s) ==
  LET t == Strip(s)
  IN  t = <<>> \/ \E k \in 1..Len(t) : ~IsHex(t[k])

RECURSIVE DropZeros(_)
DropZeros(d) == IF d # <<>> /\ Head(d) = "0" THEN DropZeros(Tail(d)) ELSE d

\* the int int(s, 16) returns, as its digits
IntOf(s) == DropZeros(Strip(s))

\* the same int as a machine number, for the one-byte length prefix
RECURSIVE NatOf(_)
NatOf(d) == IF d = <<>> THEN 0 ELSE 16 * NatOf(SubSeq(d, 1, Len(d) - 1)) + HexVal(d[Len(d)])

\* binascii.unhexlify(s) raises binascii.Error: odd length or a non-hex digit
UnhexlifyRaises(s) ==
  Len(s) % 2 = 1 \/ \E k \in 1..Len(s) : ~IsHex(s[k])

Unhexlify(s) ==
  [k \in 1..(Len(s) \div 2) |-> 16 * HexVal(s[2 * k - 1]) + HexVal(s[2 * k])]

\* bytearray.fromhex(s): whitespace is skipped before each pair of digits
RECURSIVE FromHexRaises(_)
FromHexRaises(s) ==
  LET t == LStrip(s)
  IN  IF t = <<>> THEN FALSE
      ELSE IF Len(t) < 2 \/ ~IsHex(t[1]) \/ ~IsHex(t[2]) THEN TRUE
      ELSE FromHexRaises(SliceFrom(t, 2))

RECURSIVE FromHex(_)
FromHex(s) ==
  LET t == LStrip(s)
  IN  IF t = <<>> THEN <<>>
      ELSE <<16 * HexVal(t[1]) + HexVal(t[2])>> \o FromHex(SliceFrom(t, 2))

\* bytes.hex()
RECURSIVE HexOf(_)
HexOf(b) ==
  IF b = <<>> THEN <<>>
  ELSE <<HexDigits[(Head(b) \div 16) + 1], HexDigits[(Head(b) % 16) + 1]>> \o HexOf(Tail(b))

\* int.from_bytes(b, "big")
FromBytesBig(b) == DropZeros(HexOf(b))

RECURSIVE Reverse(_)
Reverse(b) == IF b = <<>> THEN <<>> ELSE Reverse(Tail(b)) \o <<Head(b)>>

\* int.from_bytes(b, "little")
FromBytesLittle(b) == FromBytesBig(Reverse(b))

IsCont(b) == 128 <= b /\ b <= 191

\* bytes.decode("utf-8", errors="ignore"): the code points of the well-formed
\* sequences; the bytes of an ill-formed one are dropped
RECURSIVE Utf8Ignore(_)
Utf8Ignore(b) ==
  IF b = <<>> THEN <<>>
  ELSE
    LET c  == b[1]
        n  == Len(b)
        skip(k) == Utf8Ignore(SliceFrom(b, k))
    IN  IF c < 128 THEN <<c>> \o skip(1)
        ELSE IF c < 194 THEN skip(1)
        ELSE IF c < 224 THEN
          IF n < 2 THEN <<>>
          ELSE IF ~IsCont(b[2]) THEN skip(1)
          ELSE <<(c - 192) * 64 + (b[2] - 128)>> \o skip(2)
        ELSE IF c < 240 THEN
          IF n < 2 THEN <<>>
          ELSE IF \/ ~IsCont(b[2])
                  \/ (c = 224 /\ b[2] < 160)
                  \/ (c = 237 /\ b[2] >= 160) THEN skip(1)
          ELSE IF n < 3 THEN <<>>
          ELSE IF ~IsCont(b[3]) THEN skip(2)
          ELSE <<(c - 224) * 4096 + (b[2] - 128) * 64 + (b[3] - 128)>> \o skip(3)
        ELSE IF c < 245 THEN
          IF n < 2 THEN <<>>
          ELSE IF \/ ~IsCont(b[2])
                  \/ (c = 240 /\ b[2] < 144)
                  \/ (c = 244 /\ b[2] >= 144) THEN skip(1)
          ELSE IF n < 3 THEN <<>>
          ELSE IF ~IsCont(b[3]) THEN skip(2)
          ELSE IF n < 4 THEN <<>>
          ELSE IF ~IsCont(b[4]) THEN skip(3)
          ELSE <<(c - 240) * 262144 + (b[2] - 128) * 4096
                   + (b[3] - 128) * 64 + (b[4] - 128)>> \o skip(4)
        ELSE skip(1)

\* str.strip() of decoded text: space, \t, \n, \r are the only whitespace a
\* printable text can hold
IsTextSpace(c) == c \in {32, 9, 10, 13}

RECURSIVE TextLStrip(_)
TextLStrip(t) == IF t # <<>> /\ IsTextSpace(Head(t)) THEN TextLStrip(Tail(t)) ELSE t

RECURSIVE TextRStrip(_)
TextRStrip(t) ==
  IF t # <<>> /\ IsTextSpace(t[Len(t)]) THEN TextRStrip(SubSeq(t, 1, Len(t) - 1)) ELSE t

TextStrip(t) == TextRStrip(TextLStrip(t))

\* Optional[str]
NoneStr == [isNone |-> TRUE, text |-> <<>>]

Str(t) == [isNone |-> FALSE, text |-> t]

hex_to_ascii(hex_string) ==
  IF UnhexlifyRaises(hex_string) THEN NoneStr
  ELSE
    LET ascii_text == Utf8Ignore(Unhexlify(hex_string))
    IN  IF \A k \in 1..Len(ascii_text) :
              (32 <= ascii_text[k] /\ ascii_text[k] <= 126) \/ ascii_text[k] \in {10, 9, 13}
        THEN Str(TextStrip(ascii_text))
        ELSE NoneStr

(***************************************************************************)
(* Name tag decoder.                                                       *)
(***************************************************************************)
\* int(line[0:2], 16) is evaluated outside any try block
parse_key_name_raises(line) == IntRaises(Slice(line, 0, 2))

parse_key_name(line) ==
  LET key_name_length == NatOf(IntOf(Slice(line, 0, 2)))
      key_name_hex    == Slice(line, 2, key_name_length * 2 + 2)
  IN  hex_to_ascii(key_name_hex)

(***************************************************************************)
(* Values a decoder returns: None, a str, an int, or a list of key pool    *)
(* entries.                                                                *)
(***************************************************************************)
NoneVal == [tag |-> "none", s |-> <<>>, list |-> <<>>]

StrVal(s) == [tag |-> "str", s |-> s, list |-> <<>>]

IntVal(d) == [tag |-> "int", s |-> d, list |-> <<>>]

ListVal(l) == [tag |-> "list", s |-> <<>>, list |-> l]

\* the dict {"lines": n, "value": v}
Result(n, v) == [lines |-> n, value |-> v]

(***************************************************************************)
(* The key-material primitives of the secp256k1 package, at the interface  *)
(* the decoders use: each either raises or keeps the bytes it was given.   *)
(***************************************************************************)
PUBLIC_KEY_LEN == 33

\* PublicKey(raw, raw=True) raises
PublicKeyRaises(raw) == ~(Len(raw) = PUBLIC_KEY_LEN /\ raw[1] \in {2, 3})

\* PrivateKey(raw, raw=True) raises
PrivateKeyRaises(raw) ==
  ~(Len(raw) = PRIVATE_KEY_LEN /\ \E k \in 1..Len(raw) : raw[k] # 0)

(***************************************************************************)
(* Typed decoders.  For each decoder D, D_raises(lines) says that the body *)
(* of its try block raises, and D(lines) is what the call returns.         *)
(***************************************************************************)
parse_key_key_raises(ls) ==
  \/ ls = <<>>
  \/ LET key_line == Strip(ls[1])
     IN  \/ IntRaises(Slice(key_line, 0, 2))
         \/ LET name_len == NatOf(IntOf(Slice(key_line, 0, 2)))
                hex      == SliceFrom(key_line, name_len * 2 + 4)
            IN  FromHexRaises(hex) \/ PublicKeyRaises(FromHex(hex))

parse_key_key(ls) ==
  IF parse_key_key_raises(ls) THEN Result(1, NoneVal)
  ELSE
    LET key_line       == Strip(ls[1])
        name_len       == NatOf(IntOf(Slice(key_line, 0, 2)))
        public_key_raw == FromHex(SliceFrom(key_line, name_len * 2 + 4))
    IN  Result(1, StrVal(HexOf(public_key_raw)))

parse_key_value_raises(ls) ==
  \/ ls = <<>>
  \/ LET hex == Slice(Strip(ls[1]), 0, PRIVATE_KEY_LEN * 2)
     IN  FromHexRaises(hex) \/ PrivateKeyRaises(FromHex(hex))

parse_key_value(ls) ==
  IF parse_key_value_raises(ls) THEN Result(1, NoneVal)
  ELSE
    LET value_line      == Strip(ls[1])
        private_key_raw == FromHex(Slice(value_line, 0, PRIVATE_KEY_LEN * 2))
    IN  Result(1, StrVal(HexOf(private_key_raw)))

parse_minversion_key_raises(ls) == FALSE

parse_minversion_key(ls) == Result(1, StrVal(<<>>))

parse_minversion_value_raises(ls) ==
  ls = <<>> \/ IntRaises(Strip(ls[1]))

parse_minversion_value(ls) ==
  IF parse_minversion_value_raises(ls) THEN Result(1, NoneVal)
  ELSE Result(1, IntVal(IntOf(Strip(ls[1]))))

parse_pool_key_raises(ls) ==
  \/ ls = <<>>
  \/ LET key_line == Strip(ls[1])
     IN  \/ IntRaises(Slice(key_line, 0, 2))
         \/ LET name_len == NatOf(IntOf(Slice(key_line, 0, 2)))
            IN  FromHexRaises(SliceFrom(key_line, name_len * 2 + 2))

\* parse_pool_key with an except clause that reports index 0 instead of None
parse_pool_key_zero(ls) ==
  IF parse_pool_key_raises(ls) THEN Result(1, IntVal(<<>>))
  ELSE
    LET key_line    == Strip(ls[1])
        name_len    == NatOf(IntOf(Slice(key_line, 0, 2)))
        n_index_raw == FromHex(SliceFrom(key_line, name_len * 2 + 2))
    IN  Result(1, IntVal(FromBytesLittle(n_index_raw)))

parse_pool_key(ls) ==
  IF parse_pool_key_raises(ls) THEN Result(1, NoneVal)
  ELSE
    LET key_line    == Strip(ls[1])
        name_len    == NatOf(IntOf(Slice(key_line, 0, 2)))
        n_index_raw == FromHex(SliceFrom(key_line, name_len * 2 + 2))
    IN  Result(1, IntVal(FromBytesLittle(n_index_raw)))

\* "keymeta"
N_keymeta == <<107,101,121,109,101,116,97>>

\* the while loop of parse_pool_value from index k (0-based) with the
\* entries found so far: [raised, keys]
RECURSIVE pool_loop(_, _, _)
pool_loop(ls, k, found) ==
  IF ~(k + 1 < Len(ls)) THEN [raised |-> FALSE, keys |-> found]
  ELSE
    LET timestamp_line == Strip(ls[k + 1])
        keymeta_line   == Strip(ls[k + 2])
    IN  IF IntRaises(Slice(keymeta_line, 0, 2)) THEN [raised |-> TRUE, keys |-> found]
        ELSE
          LET keymeta_name_len == NatOf(IntOf(Slice(keymeta_line, 0, 2)))
              keymeta_name     == hex_to_ascii(Slice(keymeta_line, 2, keymeta_name_len * 2 + 2))
          IN  IF keymeta_name = Str(N_keymeta) THEN
                LET public_key    == SliceFrom(keymeta_line, keymeta_name_len * 2 + 2)
                    timestamp_hex == Slice(timestamp_line, 0, 8 * 2)
                IN  IF FromHexRaises(timestamp_hex) THEN [raised |-> TRUE, keys |-> found]
                    ELSE pool_loop(ls, k + 2,
                           Append(found, [name       |-> keymeta_name.text,
                                          timestamp  |-> FromBytesBig(FromHex(timestamp_hex)),
                                          public_key |-> public_key]))
              ELSE [raised |-> FALSE, keys |-> found]

parse_pool_value_raises(ls) == pool_loop(ls, 0, <<>>).raised

parse_pool_value(ls) ==
  IF parse_pool_value_raises(ls) THEN Result(1, ListVal(<<>>))
  ELSE Result(2, ListVal(pool_loop(ls, 0, <<>>).keys))

(***************************************************************************)
(* The registry.  A str key is the sequence of its code points; the empty  *)
(* dict {} of a recognized-but-inert name is the empty function.           *)
(***************************************************************************)
\* "key"
N_key == <<107,101,121>>

\* "name"
N_name == <<110,97,109,101>>

\* "pool"
N_pool == <<112,111,111,108>>

\* "version"
N_version == <<118,101,114,115,105,111,110>>

\* "minversion"
N_minversion == <<109,105,110,118,101,114,115,105,111,110>>

\* "purpose"
N_purpose == <<112,117,114,112,111,115,101>>

\* "bestblock"
N_bestblock == <<98,101,115,116,98,108,111,99,107>>

\* "defaultkey"
N_defaultkey == <<100,101,102,97,117,108,116,107,101,121>>

\* "networkinfo"
N_networkinfo == <<110,101,116,119,111,114,107,105,110,102,111>>

\* "mnemonichdchain"
N_mnemonichdchain == <<109,110,101,109,111,110,105,99,104,100,99,104,97,105,110>>

\* "witnesscachesize"
N_witnesscachesize == <<119,105,116,110,101,115,115,99,97,99,104,101,115,105,122,101>>

\* "bestblock_nomerkle"
N_bestblock_nomerkle == <<98,101,115,116,98,108,111,99,107,95,110,111,109,101,114,107,108,101>>

\* "orchard_note_commitment_tree"
N_orchard_note_commitment_tree == <<111,114,99,104,97,114,100,95,110,111,116,101,95,99,111,109,109,105,116,109,101,110,116,95,116,114,101,101>>

TypedEntry(n, kp, vp) == [name |-> n, key_parser |-> kp, value_parser |-> vp]

keys ==
  (N_key :> TypedEntry(N_key, "parse_key_key", "parse_key_value"))
  @@ (N_name :> <<>>)
  @@ (N_pool :> TypedEntry(N_pool, "parse_pool_key", "parse_pool_value"))
  @@ (N_version :> <<>>)
  @@ (N_minversion :> TypedEntry(N_minversion, "parse_minversion_key", "parse_minversion_value"))
  @@ (N_keymeta :> <<>>)
  @@ (N_purpose :> <<>>)
  @@ (N_bestblock :> <<>>)
  @@ (N_defaultkey :> <<>>)
  @@ (N_networkinfo :> <<>>)
  @@ (N_mnemonichdchain :> <<>>)
  @@ (N_witnesscachesize :> <<>>)
  @@ (N_bestblock_nomerkle :> <<>>)
  @@ (N_orchard_note_commitment_tree :> <<>>)

\* calling the function object a registry entry holds
Call(fn, ls) ==
  CASE fn = "parse_key_key"          -> parse_key_key(ls)
    [] fn = "parse_key_value"        -> parse_key_value(ls)
    [] fn = "parse_minversion_key"   -> parse_minversion_key(ls)
    [] fn = "parse_minversion_value" -> parse_minversion_value(ls)
    [] fn = "parse_pool_key"         -> parse_pool_key(ls)
    [] fn = "parse_pool_value"       -> parse_pool_value(ls)

CallRaises(fn, ls) ==
  CASE fn = "parse_key_key"          -> parse_key_key_raises(ls)
    [] fn = "parse_key_value"        -> parse_key_value_raises(ls)
    [] fn = "parse_minversion_key"   -> parse_minversion_key_raises(ls)
    [] fn = "parse_minversion_value" -> parse_minversion_value_raises(ls)
    [] fn = "parse_pool_key"         -> parse_pool_key_raises(ls)
    [] fn = "parse_pool_value"       -> parse_pool_value_raises(ls)

(***************************************************************************)
(* analyze_dump: one iteration of the while loop.                          *)
(***************************************************************************)
\* key = {"lines": 1, "value": None}
default_key == Result(1, NoneVal)

\* parsed_value["lines"] raises TypeError: None, a str, an int and a list
\* take no str index
lines_item_raises(v) == v.tag \in {"none", "str", "int", "list"}

\* try_block with an except clause that puts key and parsed_value back to
\* their defaults
try_block_reset(key_ascii, remaining_lines) ==
  IF key_ascii \notin DOMAIN keys \/ "key_parser" \notin DOMAIN keys[key_ascii]
  THEN [key |-> default_key, parsed_value |-> NoneVal, raised |-> TRUE, advance |-> 0]
  ELSE
    LET key == Call(keys[key_ascii].key_parser, remaining_lines)
        parsed_value ==
          Call(keys[key_ascii].value_parser, SliceFrom(remaining_lines, 1)).value
    IN  IF lines_item_raises(parsed_value)
        THEN [key |-> default_key, parsed_value |-> NoneVal,
              raised |-> TRUE, advance |-> 0]
        ELSE [key |-> key, parsed_value |-> parsed_value,
              raised |-> FALSE, advance |-> key.lines + parsed_value.lines]

\* the try block of the iteration, for a decoded name: the key and
\* parsed_value it has assigned when it ends, whether it raised, and the
\* advance it has added to the cursor
try_block(key_ascii, remaining_lines) ==
  IF key_ascii \notin DOMAIN keys \/ "key_parser" \notin DOMAIN keys[key_ascii]
  THEN [key |-> default_key, parsed_value |-> NoneVal, raised |-> TRUE, advance |-> 0]
  ELSE
    LET key == Call(keys[key_ascii].key_parser, remaining_lines)
    IN  IF "value_parser" \notin DOMAIN keys[key_ascii]
        THEN [key |-> key, parsed_value |-> NoneVal, raised |-> TRUE, advance |-> 0]
        ELSE
          LET parsed_value ==
                Call(keys[key_ascii].value_parser, SliceFrom(remaining_lines, 1)).value
          IN  IF lines_item_raises(parsed_value)
              THEN [key |-> key, parsed_value |-> parsed_value,
                    raised |-> TRUE, advance |-> 0]
              ELSE [key |-> key, parsed_value |-> parsed_value,
                    raised |-> FALSE, advance |-> key.lines + parsed_value.lines]

\* the dict appended to results
Entry(key, key_ascii, parsed_value) ==
  [key |-> key.value, key_ascii |-> key_ascii, value |-> NoneVal,
   parsed_value |-> parsed_value]

\* line = lines[i].strip()
CurrentLine == Strip(lines[i + 1])

\* parse_key_name raises: the exception leaves analyze_dump
NameTagRaises ==
  /\ pc = "loop"
  /\ i < Len(lines)
  /\ parse_key_name_raises(CurrentLine)
  /\ pc' = "raised"
  /\ UNCHANGED <<lines, i, results, starts, called, ret, faulted>>

\* SkipStep without the append: the skipped line leaves no entry
SkipStep_silent ==
  /\ pc = "loop"
  /\ i < Len(lines)
  /\ ~parse_key_name_raises(CurrentLine)
  /\ parse_key_name(CurrentLine).isNone
  /\ i' = i + 1
  /\ starts' = Append(starts, i)
  /\ UNCHANGED <<lines, results, pc, called, ret, faulted>>

\* key_ascii is None: the else branch
SkipStep ==
  /\ pc = "loop"
  /\ i < Len(lines)
  /\ ~parse_key_name_raises(CurrentLine)
  /\ LET key_ascii == parse_key_name(CurrentLine)
     IN  /\ key_ascii.isNone
         /\ i' = i + 1
         /\ results' = Append(results, Entry(default_key, key_ascii, NoneVal))
  /\ starts' = Append(starts, i)
  /\ UNCHANGED <<lines, pc, called, ret, faulted>>

\* key_ascii is not None: the try block and its except clause
DispatchStep ==
  /\ pc = "loop"
  /\ i < Len(lines)
  /\ ~parse_key_name_raises(CurrentLine)
  /\ LET key_ascii == parse_key_name(CurrentLine)
         t         == try_block(key_ascii.text, SliceFrom(lines, i))
     IN  /\ ~key_ascii.isNone
         /\ i' = IF t.raised THEN i + 1 ELSE i + t.advance
         /\ results' = Append(results, Entry(t.key, key_ascii, t.parsed_value))
  /\ starts' = Append(starts, i)
  /\ UNCHANGED <<lines, pc, called, ret, faulted>>

\* the loop condition fails: return results
Return ==
  /\ pc = "loop"
  /\ i >= Len(lines)
  /\ pc' = "done"
  /\ UNCHANGED <<lines, i, results, starts, called, ret, faulted>>

(***************************************************************************)
(* Inputs.                                                                 *)
(***************************************************************************)
\* a "key" record line: 03 "key" 21 <compressed public key>
L_key ==
  <<"0","3","6","b","6","5","7","9","2","1","0","2","1","0","9","3",
    "3","e","e","a","e","2","f","5","c","c","2","6","a","7","9","3",
    "8","f","f","2","e","1","a","9","5","0","2","b","4","1","a","d",
    "d","b","a","6","c","7","f","4","1","c","f","e","d","c","a","0",
    "f","8","a","7","7","d","c","d","0","a","3","e">>

\* the value line of a "key" record: <32-byte scalar><digest bytes>
L_priv ==
  <<"7","d","1","3","4","9","2","d","7","b","7","6","c","9","6","7",
    "c","0","3","d","8","6","f","a","a","5","e","9","8","2","6","7",
    "6","c","6","7","0","5","5","9","3","a","8","0","6","f","b","8",
    "3","2","5","0","4","a","a","4","e","4","5","b","8","7","e","9",
    "6","8","6","d","1","4","6","2">>

\* a "key" record line whose public key the primitive rejects
L_badkey ==
  <<"0","3","6","b","6","5","7","9","2","1","0","5","1","0">>

\* a "pool" record line: 04 "pool" <little-endian index 1>
L_pool ==
  <<"0","4","7","0","6","f","6","f","6","c","0","1","0","0","0","0",
    "0","0","0","0","0","0","0","0","0","0">>

\* a pool timestamp line: 8 bytes of timestamp, then trailing bytes
L_ts ==
  <<"b","2","8","d","5","b","0","0","b","e","e","4","4","6","6","7",
    "0","0","0","0","0","0","0","0">>

\* a second pool timestamp line, exactly 8 bytes
L_ts2 ==
  <<"0","a","0","0","0","0","0","0","b","e","e","4","4","6","6","7">>

\* a "keymeta" line: 07 "keymeta" <compressed public key>
L_keymeta ==
  <<"0","7","6","b","6","5","7","9","6","d","6","5","7","4","6","1",
    "0","2","1","0","9","3","3","e","e","a","e","2","f","5","c","c",
    "2","6","a","7","9","3","8","f","f","2","e","1","a","9","5","0",
    "2","b","4","1","a","d","d","b","a","6","c","7","f","4","1","c",
    "f","e","d","c","a","0","f","8","a","7","7","d","c","d","0","a",
    "3","e">>

\* a "keymeta" line with another public key
L_keymeta2 ==
  <<"0","7","6","b","6","5","7","9","6","d","6","5","7","4","6","1",
    "0","2","2","0","9","4","7","9","9","b","3","3","0","f","1","f",
    "0","d","a","4","2","d","7","1","b","0","3","3","4","8","f","d",
    "1","7","a","6","e","a","7","0","3","d","c","0","9","c","2","f",
    "4","8","3","3","9","4","4","f","d","7","0","c","9","a","b","a",
    "1","d">>

\* a "minversion" record line
L_minversion ==
  <<"0","a","6","d","6","9","6","e","7","6","6","5","7","2","7","3",
    "6","9","6","f","6","e">>

\* the value line of a "minversion" record
L_minvalue ==
  <<"6","0","e","a","0","0","0","0">>

\* 07 "receive": a printable name that is not in the registry
L_receive ==
  <<"0","7","7","2","6","5","6","3","6","5","6","9","7","6","6","5">>

\* 07 "version" (a recognized-but-inert name), with surrounding whitespace
L_version ==
  <<" "," ","0","7","7","6","6","5","7","2","7","3","6","9","6","f",
    "6","e"," ">>

\* a 00 length byte: the empty name
L_emptyname ==
  <<"0","0">>

\* 01 00: the name bytes are not printable, so no name decodes
L_noname ==
  <<"0","1","0","0">>

\* a line whose first two characters are no hexadecimal digits
L_nonhex ==
  <<"z","z">>

\* a line that is empty once trimmed
L_blank ==
  <<" ">>

\* a timestamp line with an odd number of digits
L_oddts ==
  <<"b","2","8">>

SeqsUpTo(S, n) == UNION {[1..k -> S] : k \in 0..n}

Corpus ==
  {L_key, L_priv, L_badkey, L_pool, L_ts, L_keymeta, L_minversion, L_minvalue,
   L_receive, L_version, L_emptyname, L_noname, L_nonhex, L_blank}

PoolCorpus ==
  {L_ts, L_ts2, L_keymeta, L_keymeta2, L_version, L_noname, L_nonhex, L_oddts}

DumpInputs == SeqsUpTo(Corpus, MaxLines)

DecoderInputs ==
  SeqsUpTo(PoolCorpus, MaxPoolLines) \cup SeqsUpTo(Corpus \cup PoolCorpus, 1)

(***************************************************************************)
(* Specification of analyze_dump.                                          *)
(***************************************************************************)
Init ==
  /\ lines \in DumpInputs
  /\ i = 0
  /\ results = <<>>
  /\ starts = <<>>
  /\ pc = "loop"
  /\ called = "none"
  /\ ret = Result(0, NoneVal)
  /\ faulted = FALSE

Next == NameTagRaises \/ SkipStep \/ DispatchStep \/ Return

Spec == Init /\ [][Next]_vars

(***************************************************************************)
(* Specification of the typed decoders: each is called once on an input.   *)
(***************************************************************************)
\* a call of decoder fn on the input: what it returns, and whether its try
\* block raised
Invoke(fn) ==
  /\ called' = fn
  /\ ret' = Call(fn, lines)
  /\ faulted' = CallRaises(fn, lines)
  /\ UNCHANGED <<lines, i, results, starts, pc>>

CallKeyKey ==
  /\ pc = "idle" /\ called = "none"
  /\ Invoke("parse_key_key")

CallKeyValue ==
  /\ pc = "idle" /\ called = "none"
  /\ Invoke("parse_key_value")

CallMinversionKey ==
  /\ pc = "idle" /\ called = "none"
  /\ Invoke("parse_minversion_key")

CallMinversionValue ==
  /\ pc = "idle" /\ called = "none"
  /\ Invoke("parse_minversion_value")

CallPoolKey ==
  /\ pc = "idle" /\ called = "none"
  /\ Invoke("parse_pool_key")

CallPoolValue ==
  /\ pc = "idle" /\ called = "none"
  /\ Invoke("parse_pool_value")

DecInit ==
  /\ lines \in DecoderInputs
  /\ i = 0
  /\ results = <<>>
  /\ starts = <<>>
  /\ pc = "idle"
  /\ called = "none"
  /\ ret = Result(0, NoneVal)
  /\ faulted = FALSE

DecNext ==
  \/ CallKeyKey \/ CallKeyValue \/ CallMinversionKey
  \/ CallMinversionValue \/ CallPoolKey \/ CallPoolValue

DecSpec == DecInit /\ [][DecNext]_vars

(***************************************************************************)
(* Definitions the properties below are stated with.                       *)
(***************************************************************************)
\* the entry of a skipped line: record_name, key and value all None
NoneEntry == Entry(default_key, NoneStr, NoneVal)

\* the name read from a line, None when the length byte cannot be read
NameOf(line) ==
  IF parse_key_name_raises(Strip(line)) THEN NoneStr ELSE parse_key_name(Strip(line))

\* the names of the registry that hold a decoder pair
Typed(n) == n \in DOMAIN keys /\ "key_parser" \in DOMAIN keys[n]

\* the cursor is on a line
AtLine == pc = "loop" /\ i < Len(lines)

\* the value of the record's key decoder on ls (None for an inert name)
KeyDecoded(n, ls) == IF Typed(n) THEN Call(keys[n].key_parser, ls).value ELSE NoneVal

\* the value of the record's value decoder on ls (None for an inert name)
ValueDecoded(n, ls) == IF Typed(n) THEN Call(keys[n].value_parser, ls).value ELSE NoneVal

\* a timestamp line opens with 8 bytes written as 16 hexadecimal digits
TimestampLine(l) ==
  LET h == Slice(Strip(l), 0, 16)
  IN  Len(h) = 16 /\ \A k \in 1..16 : IsHex(h[k])

\* a well-formed (timestamp line, keymeta line) pair
WellFormedPair(l1, l2) == TimestampLine(l1) /\ NameOf(l2) = Str(N_keymeta)

\* the number of well-formed pairs ls begins with
RECURSIVE RunLength(_)
RunLength(ls) ==
  IF Len(ls) >= 2 /\ WellFormedPair(ls[1], ls[2]) THEN 1 + RunLength(SliceFrom(ls, 2)) ELSE 0

\* what follows the run is the end of the input, a single line, or a pair
\* whose second line does not name keymeta (another name, or no name)
RunEndsAsClaimed(ls) ==
  LET rest == SliceFrom(ls, 2 * RunLength(ls))
  IN  Len(rest) <= 1 \/ NameOf(rest[2]) # Str(N_keymeta)

\* the entries of the run, in input order
RunEntries(ls) ==
  [k \in 1..RunLength(ls) |->
     LET keymeta_line == Strip(ls[2 * k])
     IN  [name       |-> N_keymeta,
          timestamp  |-> FromBytesBig(FromHex(Slice(Strip(ls[2 * k - 1]), 0, 16))),
          public_key |-> SliceFrom(keymeta_line,
                                   NatOf(IntOf(Slice(keymeta_line, 0, 2))) * 2 + 2)]]

(***************************************************************************)
(* Properties.                                                             *)
(***************************************************************************)

\* C1: forward progress of analyze_dump.  The cursor stays in
\* 0..len(lines), every iteration started at a higher cursor than the one
\* before it and left the cursor above its start, at most len(lines)
\* iterations are taken, and the loop is left only in the terminal state
\* i >= len(lines).
C1_ForwardProgress ==
  /\ 0 <= i /\ i <= Len(lines)
  /\ Len(starts) <= Len(lines)
  /\ \A k \in 1..Len(starts) :
       starts[k] < (IF k < Len(starts) THEN starts[k + 1] ELSE i)
  /\ (pc # "loop" => i >= Len(lines))

\* C2: cursor advance for a recognized record.  An iteration on a line
\* whose name holds a decoder pair moves the cursor by the line count of the
\* key decoder on lines[i:] plus the line count of the value decoder on
\* lines[i+1:], so the lines of the value are not visited as records.
C2_CursorAdvance ==
  [][(/\ AtLine
      /\ ~NameOf(lines[i + 1]).isNone
      /\ Typed(NameOf(lines[i + 1]).text)
      /\ results' # results)
     => LET n == NameOf(lines[i + 1]).text
        IN  i' = i + Call(keys[n].key_parser, SliceFrom(lines, i)).lines
                   + Call(keys[n].value_parser, SliceFrom(lines, i + 1)).lines]_vars

\* C3: never-abort.  No line makes the name tag decoder raise out of
\* analyze_dump.
C3_NeverAbort == pc # "raised"

\* C4: unrecognized-name skip.  On a line whose name does not decode or is
\* no key of the registry, the iteration appends exactly the entry with
\* record_name, key and value None and moves the cursor by exactly 1.
C4_UnrecognizedSkip ==
  [][(/\ AtLine
      /\ (NameOf(lines[i + 1]).isNone \/ NameOf(lines[i + 1]).text \notin DOMAIN keys))
     => (results' = Append(results, NoneEntry) /\ i' = i + 1)]_vars

\* C5: emission for a registered name.  Every iteration appended exactly one
\* entry, and the entry of an iteration started on a line whose name is in
\* the registry holds that name, the value of the record's key decoder on
\* lines[i:] and the value of its value decoder on lines[i+1:] (None and
\* None for an inert name).
C5_Emission ==
  /\ Len(results) = Len(starts)
  /\ \A k \in 1..Len(results) :
       LET p  == starts[k]
           nm == NameOf(lines[p + 1])
       IN  (~nm.isNone /\ nm.text \in DOMAIN keys) =>
             /\ results[k].key_ascii = nm
             /\ results[k].key = KeyDecoded(nm.text, SliceFrom(lines, p))
             /\ results[k].parsed_value = ValueDecoded(nm.text, SliceFrom(lines, p + 1))

\* a "key" record was emitted with its public and private key decoded, and
\* an inert name was emitted too
C5_Witness ==
  /\ \E k \in 1..Len(results) :
       /\ results[k].key_ascii = Str(N_key)
       /\ results[k].key.tag = "str"
       /\ results[k].parsed_value.tag = "str"
  /\ \E k \in 1..Len(results) : results[k].key_ascii = Str(N_version)

\* C6: pool run contents.  When the input of the pool value decoder begins
\* with exactly N well-formed pairs and the run ends as the claim lists, the
\* decoder's value is exactly the N entries of the run, in input order.
C6_PoolRun ==
  (called = "parse_pool_value" /\ RunEndsAsClaimed(lines))
    => ret.value = ListVal(RunEntries(lines))

\* C7: pool line accounting.  The pool value decoder's line count is twice
\* the number of entries it returns, and 1 when it returns none.
C7_PoolAccounting ==
  called = "parse_pool_value"
    => ret.lines = (IF Len(ret.value.list) >= 1 THEN 2 * Len(ret.value.list) ELSE 1)

C9_OutputSequence ==
  /\ [](/\ Len(results) = Len(starts)
        /\ \A j, k \in 1..Len(starts) : j < k => starts[j] < starts[k]
        /\ \A k \in 1..Len(results) :
             results[k].key_ascii = NameOf(lines[starts[k] + 1]))
  /\ [][\/ results' = results
        \/ /\ Len(results') = Len(results) + 1
           /\ SubSeq(results', 1, Len(results)) = results
           /\ Len(starts') = Len(starts) + 1]_vars

\* three entries were emitted and the call has returned
C9_Witness == pc = "done" /\ Len(results) >= 3 /\ results[1] # results[2]

\* C10: fault fallback.  When the try block of an iteration raises, the
\* iteration appends the entry with record_name, key and value None and
\* moves the cursor by exactly 1.
C10_FaultFallback ==
  [][(/\ AtLine
      /\ ~parse_key_name_raises(CurrentLine)
      /\ ~parse_key_name(CurrentLine).isNone
      /\ try_block(parse_key_name(CurrentLine).text, SliceFrom(lines, i)).raised)
     => (results' = Append(results, NoneEntry) /\ i' = i + 1)]_vars

====
